---- MODULE Spec2Model ----
(***************************************************************************)
(* Model of main() of the particle conversion simulation                   *)
(* (simulation/particleconversion/particleconversion.cpp).                  *)
(*                                                                         *)
(* main() is straight-line code.  Two parts of it are produced at build    *)
(* time by cog templates from the configuration conf["particleconversion"]:*)
(* the default values of macroFolder / outputfileName, and the statements  *)
(* that process a macro or start a UI session.  The model therefore builds *)
(* the statement list of main() from the build-time configuration and      *)
(* executes it one statement per step.  Every call into a collaborator     *)
(* (Geant4, CLHEP, the user classes) is recorded in `calls`.               *)
(***************************************************************************)
EXTENDS Integers, Sequences, FiniteSets, TLC

\* ------------------------------------------------------------------ bounds
\* largest number of command line parameters after the program name
MaxArgs == 3

\* ------------------------------------------------------- input value sets
ProgramName == "particleconversion"
ArgValues == {"", "run42.root", "/opt/macros"}
MacroFolderValues == {"macros"}
OutFilenameValues == {"out.root"}
MacroPathValues == {"", "batch.mac"}

\* conf["particleconversion"]: macro_folder and out_filename are always
\* there, macro_path is an optional key
ConfValues ==
  [macro_folder : MacroFolderValues, out_filename : OutFilenameValues]
    \cup
  [macro_folder : MacroFolderValues, out_filename : OutFilenameValues,
   macro_path : MacroPathValues]

RECURSIVE SeqsUpTo(_, _)
SeqsUpTo(S, n) ==
  IF n = 0 THEN {<<>>}
  ELSE LET shorter == SeqsUpTo(S, n - 1)
       IN  shorter \cup {Append(s, v) : s \in {t \in shorter : Len(t) = n - 1}, v \in S}

\* argv[0] is the program name, the parameters follow
ArgvValues == {<<ProgramName>> \o a : a \in SeqsUpTo(ArgValues, MaxArgs)}

VARIABLES
  conf,                  \* build-time configuration read by the cog templates
  G4MULTITHREADED,       \* build-time choice of the run manager class
  argv,                  \* command line of the process, argc = Len(argv)
  pc,                    \* index of the next statement of main()
  proc,                  \* "running", "exited" or "terminated"
  exitCode,              \* value returned by main()
  outputfileName,        \* TString outputfileName
  macroFolder,           \* TString macroFolder
  runManager,            \* the object behind G4(MT)RunManager* runManager
  detectorConstruction,  \* DetectorConstruction* detectorConstruction
  visManager,            \* state of the object behind G4VisManager* visManager
  ui,                    \* the object behind G4UIExecutive* ui
  UImanager,             \* G4UImanager* UImanager
  calls,                 \* the collaborator calls made so far, in order
  last                   \* what the previous run of the same build did

vars == <<conf, G4MULTITHREADED, argv, pc, proc, exitCode, outputfileName,
          macroFolder, runManager, detectorConstruction, visManager, ui,
          UImanager, calls, last>>

build == <<conf, G4MULTITHREADED>>

argc == Len(argv)

\* C indexing of argv
Argv(k) == argv[k + 1]

NoStatus == -1
NullRunManager == [state |-> "null", kind |-> "none", registered |-> <<>>]
NullUI == [state |-> "null", argc |-> 0, argv |-> <<>>]
NoRun == [argc |-> 0, path |-> "none", macros |-> {}]

\* ------------------------------------------------- configuration (26-45)
\* line 30: the generated assignment of the default macro folder
DefaultMacroFolder(c) == c.macro_folder

\* line 43: the generated assignment of the default output file name
DefaultOutputfileName(c) == c.out_filename

\* variant: every count of two or more parameters takes the first two
ResolveConfiguration_atLeastTwo(n, v, c) ==
  IF n = 2 THEN
    [outputfileName |-> v[2], macroFolder |-> DefaultMacroFolder(c)]
  ELSE IF n >= 3 THEN
    [outputfileName |-> v[2], macroFolder |-> v[3]]
  ELSE
    [outputfileName |-> DefaultOutputfileName(c),
     macroFolder |-> DefaultMacroFolder(c)]

\* lines 27-45: the values of outputfileName and macroFolder after the if
ResolveConfiguration(n, v, c) ==
  IF n = 2 THEN
    [outputfileName |-> v[2], macroFolder |-> DefaultMacroFolder(c)]
  ELSE IF n = 3 THEN
    [outputfileName |-> v[2], macroFolder |-> v[3]]
  ELSE
    [outputfileName |-> DefaultOutputfileName(c),
     macroFolder |-> DefaultMacroFolder(c)]

\* ------------------------------------------------------ statements of main
Stmt(o, a, l) == [op |-> o, arg |-> a, line |-> l]

Configuration == << Stmt("resolve", "", 27) >>

RunManagerSetup ==
  << Stmt("setTheEngine", "", 49),
     Stmt("newRunManager", "", 53) >>

\* variant: the action initialization is made before the detector exists
Assembly_actionFirst ==
  << Stmt("SetPhysicsList", "", 59),
     Stmt("SetActionInitialization", "", 64),
     Stmt("newDetectorConstruction", "", 60),
     Stmt("SetDetectorConstruction", "", 61) >>

\* lines 58-64: the mandatory initialization classes
Assembly ==
  << Stmt("SetPhysicsList", "", 59),
     Stmt("newDetectorConstruction", "", 60),
     Stmt("SetDetectorConstruction", "", 61),
     Stmt("SetActionInitialization", "", 64) >>

\* lines 66-70
Visualization ==
  << Stmt("newVisExecutive", "", 67),
     Stmt("visInitialize", "", 70) >>

\* variant: the bootstrap macro is executed before the search path is set
ui_start_executeFirst ==
  << Stmt("newUIExecutive", "", 77),
     Stmt("GetUIpointer", "", 78),
     Stmt("ApplyExecute", "vis.mac", 80),
     Stmt("ApplyMacroPath", "", 79),
     Stmt("SessionStart", "", 81),
     Stmt("deleteUI", "", 82) >>

\* variant: the session object is not deleted
ui_start_withoutDelete ==
  << Stmt("newUIExecutive", "", 77),
     Stmt("GetUIpointer", "", 78),
     Stmt("ApplyMacroPath", "", 79),
     Stmt("ApplyExecute", "vis.mac", 80),
     Stmt("SessionStart", "", 81) >>

\* lines 76-82: def ui_start()
ui_start ==
  << Stmt("newUIExecutive", "", 77),
     Stmt("GetUIpointer", "", 78),
     Stmt("ApplyMacroPath", "", 79),
     Stmt("ApplyExecute", "vis.mac", 80),
     Stmt("SessionStart", "", 81),
     Stmt("deleteUI", "", 82) >>

\* variant: the macro is executed before the search path is set
RunMacro_executeFirst(macro_path) ==
  << Stmt("GetUIpointer", "", 87),
     Stmt("ApplyExecute", macro_path, 89),
     Stmt("ApplyMacroPath", "", 88) >>

\* variant: a third command line parameter names the macro to run
RunMacro_fromArgv(macro_path) ==
  << Stmt("GetUIpointer", "", 87),
     Stmt("ApplyMacroPath", "", 88),
     Stmt("ApplyExecute", IF argc = 4 THEN argv[4] ELSE macro_path, 89) >>

\* lines 87-89: the statements generated for a given macro file
RunMacro(macro_path) ==
  << Stmt("GetUIpointer", "", 87),
     Stmt("ApplyMacroPath", "", 88),
     Stmt("ApplyExecute", macro_path, 89) >>

\* variant: the template does not test macro_path for the empty string
CogDispatch_presentOnly(c) ==
  IF "macro_path" \in DOMAIN c THEN RunMacro(c.macro_path)
  ELSE ui_start

\* lines 84-93: the choice made by the template
CogDispatch(c) ==
  IF "macro_path" \in DOMAIN c THEN
    IF c.macro_path # "" THEN RunMacro(c.macro_path)
    ELSE ui_start
  ELSE ui_start

\* variant: the run manager is not deleted
Teardown_withoutRunManager ==
  << Stmt("deleteVisManager", "", 97) >>

\* variant: the run manager is deleted first
Teardown_runManagerFirst ==
  << Stmt("deleteRunManager", "", 98),
     Stmt("deleteVisManager", "", 97) >>

\* lines 97-98
Teardown ==
  << Stmt("deleteVisManager", "", 97),
     Stmt("deleteRunManager", "", 98) >>

\* variant: the generated dispatch code comes before the registrations
Main_dispatchBeforeAssembly(c) ==
  Configuration \o RunManagerSetup \o Visualization \o CogDispatch(c)
    \o Assembly \o Teardown

\* lines 26-99
Main(c) ==
  Configuration \o RunManagerSetup \o Assembly \o Visualization
    \o CogDispatch(c) \o Teardown

Program == Main(conf)

\* first and last statement of the generated dispatch code
CogBegin == Len(Configuration) + Len(RunManagerSetup) + Len(Assembly)
              + Len(Visualization) + 1
CogEnd == Len(Program) - Len(Teardown)

Running == proc = "running" /\ pc <= Len(Program)
At(o) == Running /\ Program[pc].op = o

\* variant: the search path directive is built from the output file name
Text_outputName(s) ==
  IF s.op = "ApplyMacroPath" THEN "/control/macroPath " \o outputfileName
  ELSE IF s.op = "ApplyExecute" THEN "/control/execute " \o s.arg
  ELSE IF s.op = "SetActionInitialization" THEN outputfileName
  ELSE s.arg

\* the argument a statement hands to the collaborator it calls
Text(s) ==
  IF s.op = "ApplyMacroPath" THEN "/control/macroPath " \o macroFolder
  ELSE IF s.op = "ApplyExecute" THEN "/control/execute " \o s.arg
  ELSE IF s.op = "SetActionInitialization" THEN outputfileName
  ELSE s.arg

\* the record of the call made by the statement at pc, r is how it ended
Call(r) ==
  [op |-> Program[pc].op, arg |-> Text(Program[pc]), res |-> r,
   line |-> Program[pc].line]

\* a collaborator call that returns
Returned(r) ==
  /\ calls' = Append(calls, Call(r))
  /\ pc' = pc + 1

\* --------------------------------------------------------------- the state
StartOfRun(a) ==
  /\ argv = a
  /\ pc = 1
  /\ proc = "running"
  /\ exitCode = NoStatus
  /\ outputfileName = ""
  /\ macroFolder = ""
  /\ runManager = NullRunManager
  /\ detectorConstruction = "null"
  /\ visManager = "null"
  /\ ui = NullUI
  /\ UImanager = "null"
  /\ calls = <<>>

Init ==
  /\ conf \in ConfValues
  /\ G4MULTITHREADED \in BOOLEAN
  /\ last = NoRun
  /\ \E a \in ArgvValues : StartOfRun(a)

\* ------------------------------------------------------------- the actions
\* lines 27-45
Resolve ==
  /\ At("resolve")
  /\ LET r == ResolveConfiguration(argc, argv, conf)
     IN  /\ outputfileName' = r.outputfileName
         /\ macroFolder' = r.macroFolder
  /\ pc' = pc + 1
  /\ UNCHANGED <<build, argv, proc, exitCode, runManager, detectorConstruction,
                 visManager, ui, UImanager, calls, last>>

\* line 49
SetTheEngine ==
  /\ At("setTheEngine")
  /\ Returned("ok")
  /\ UNCHANGED <<build, argv, proc, exitCode, outputfileName, macroFolder,
                 runManager, detectorConstruction, visManager, ui, UImanager,
                 last>>

\* lines 52-56
NewRunManager ==
  /\ At("newRunManager")
  /\ LET k == IF G4MULTITHREADED THEN "G4MTRunManager" ELSE "G4RunManager"
     IN  /\ runManager' = [state |-> "live", kind |-> k, registered |-> <<>>]
         /\ Returned("ok")
  /\ UNCHANGED <<build, argv, proc, exitCode, outputfileName, macroFolder,
                 detectorConstruction, visManager, ui, UImanager, last>>

Registration(k, d, o) == [kind |-> k, detector |-> d, outputfileName |-> o]

\* runManager->SetUserInitialization(x)
SetUserInitialization(x) ==
  /\ runManager' = [runManager EXCEPT !.registered = Append(@, x)]
  /\ Returned("ok")

\* line 59
SetPhysicsList ==
  /\ At("SetPhysicsList")
  /\ SetUserInitialization(Registration("PhysicsList", "null", ""))
  /\ UNCHANGED <<build, argv, proc, exitCode, outputfileName, macroFolder,
                 detectorConstruction, visManager, ui, UImanager, last>>

\* line 60
NewDetectorConstruction ==
  /\ At("newDetectorConstruction")
  /\ detectorConstruction' = "detector"
  /\ Returned("ok")
  /\ UNCHANGED <<build, argv, proc, exitCode, outputfileName, macroFolder,
                 runManager, visManager, ui, UImanager, last>>

\* line 61
SetDetectorConstruction ==
  /\ At("SetDetectorConstruction")
  /\ SetUserInitialization(
       Registration("DetectorConstruction", detectorConstruction, ""))
  /\ UNCHANGED <<build, argv, proc, exitCode, outputfileName, macroFolder,
                 detectorConstruction, visManager, ui, UImanager, last>>

\* line 64
SetActionInitialization ==
  /\ At("SetActionInitialization")
  /\ SetUserInitialization(
       Registration("ActionInitialization", detectorConstruction,
                    outputfileName))
  /\ UNCHANGED <<build, argv, proc, exitCode, outputfileName, macroFolder,
                 detectorConstruction, visManager, ui, UImanager, last>>

\* line 67
NewVisExecutive ==
  /\ At("newVisExecutive")
  /\ visManager' = "constructed"
  /\ Returned("ok")
  /\ UNCHANGED <<build, argv, proc, exitCode, outputfileName, macroFolder,
                 runManager, detectorConstruction, ui, UImanager, last>>

\* line 70: Initialize() returns void, main() looks at nothing afterwards
VisInitialize ==
  /\ At("visInitialize")
  /\ \E r \in {"ok", "fail"} :
       /\ visManager' = IF r = "ok" THEN "initialized" ELSE "failed"
       /\ Returned(r)
  /\ UNCHANGED <<build, argv, proc, exitCode, outputfileName, macroFolder,
                 runManager, detectorConstruction, ui, UImanager, last>>

\* line 77
NewUIExecutive ==
  /\ At("newUIExecutive")
  /\ ui' = [state |-> "open", argc |-> argc, argv |-> argv]
  /\ Returned("ok")
  /\ UNCHANGED <<build, argv, proc, exitCode, outputfileName, macroFolder,
                 runManager, detectorConstruction, visManager, UImanager, last>>

\* lines 78 and 87
GetUIpointer ==
  /\ At("GetUIpointer")
  /\ UImanager' = "UImanager"
  /\ Returned("ok")
  /\ UNCHANGED <<build, argv, proc, exitCode, outputfileName, macroFolder,
                 runManager, detectorConstruction, visManager, ui, last>>

\* variant: a directive that failed is applied a second time
ApplyCommand_retry ==
  \E r \in {"ok", "fail"} :
    /\ calls' = Append(calls, Call(r))
    /\ pc' = IF r = "fail" /\ \A i \in 1..Len(calls) : calls[i].line # Program[pc].line
             THEN pc
             ELSE pc + 1

\* UImanager->ApplyCommand(...): the status it returns is dropped
ApplyCommand == \E r \in {"ok", "fail"} : Returned(r)

\* lines 79 and 88
ApplyMacroPath ==
  /\ At("ApplyMacroPath")
  /\ ApplyCommand
  /\ UNCHANGED <<build, argv, proc, exitCode, outputfileName, macroFolder,
                 runManager, detectorConstruction, visManager, ui, UImanager,
                 last>>

\* lines 80 and 89
ApplyExecute ==
  /\ At("ApplyExecute")
  /\ ApplyCommand
  /\ UNCHANGED <<build, argv, proc, exitCode, outputfileName, macroFolder,
                 runManager, detectorConstruction, visManager, ui, UImanager,
                 last>>

\* line 81: the call is entered and blocks
SessionStart ==
  /\ At("SessionStart")
  /\ ui.state # "running"
  /\ ui' = [ui EXCEPT !.state = "running"]
  /\ calls' = Append(calls, Call("ok"))
  /\ UNCHANGED <<build, argv, pc, proc, exitCode, outputfileName, macroFolder,
                 runManager, detectorConstruction, visManager, UImanager, last>>

\* line 81: the user ends the session and the call returns
SessionEnd ==
  /\ At("SessionStart")
  /\ ui.state = "running"
  /\ ui' = [ui EXCEPT !.state = "closed"]
  /\ pc' = pc + 1
  /\ UNCHANGED <<build, argv, proc, exitCode, outputfileName, macroFolder,
                 runManager, detectorConstruction, visManager, UImanager,
                 calls, last>>

\* line 82
DeleteUI ==
  /\ At("deleteUI")
  /\ ui' = [ui EXCEPT !.state = "deleted"]
  /\ Returned("ok")
  /\ UNCHANGED <<build, argv, proc, exitCode, outputfileName, macroFolder,
                 runManager, detectorConstruction, visManager, UImanager, last>>

\* line 97
DeleteVisManager ==
  /\ At("deleteVisManager")
  /\ visManager' = "deleted"
  /\ Returned("ok")
  /\ UNCHANGED <<build, argv, proc, exitCode, outputfileName, macroFolder,
                 runManager, detectorConstruction, ui, UImanager, last>>

\* line 98
DeleteRunManager ==
  /\ At("deleteRunManager")
  /\ runManager' = [runManager EXCEPT !.state = "deleted"]
  /\ Returned("ok")
  /\ UNCHANGED <<build, argv, proc, exitCode, outputfileName, macroFolder,
                 detectorConstruction, visManager, ui, UImanager, last>>

\* variant: main() returns 1 when a call reported a failure
Return_statusFromCalls ==
  /\ proc = "running"
  /\ pc = Len(Program) + 1
  /\ proc' = "exited"
  /\ exitCode' = IF \E i \in 1..Len(calls) : calls[i].res = "fail" THEN 1 ELSE 0
  /\ UNCHANGED <<build, argv, pc, outputfileName, macroFolder, runManager,
                 detectorConstruction, visManager, ui, UImanager, calls, last>>

\* line 99: main() ends without a return statement, which returns 0
Return ==
  /\ proc = "running"
  /\ pc = Len(Program) + 1
  /\ proc' = "exited"
  /\ exitCode' = 0
  /\ UNCHANGED <<build, argv, pc, outputfileName, macroFolder, runManager,
                 detectorConstruction, visManager, ui, UImanager, calls, last>>

\* main() has no try block: an exception thrown by a collaborator call
\* leaves main() and ends the process, the rest of main() is not executed
Throw ==
  /\ Running
  /\ Program[pc].op # "resolve"
  /\ ~(Program[pc].op = "SessionStart" /\ ui.state = "running")
  /\ calls' = Append(calls, Call("throw"))
  /\ proc' = "terminated"
  /\ UNCHANGED <<build, argv, pc, exitCode, outputfileName, macroFolder,
                 runManager, detectorConstruction, visManager, ui, UImanager,
                 last>>

Next ==
  \/ Resolve
  \/ SetTheEngine
  \/ NewRunManager
  \/ SetPhysicsList
  \/ NewDetectorConstruction
  \/ SetDetectorConstruction
  \/ SetActionInitialization
  \/ NewVisExecutive
  \/ VisInitialize
  \/ NewUIExecutive
  \/ GetUIpointer
  \/ ApplyMacroPath
  \/ ApplyExecute
  \/ SessionStart
  \/ SessionEnd
  \/ DeleteUI
  \/ DeleteVisManager
  \/ DeleteRunManager
  \/ Return
  \/ Throw

Spec == Init /\ [][Next]_vars

\* main() when every collaborator call returns: the statements are executed
\* one after the other on the main thread, nothing else is scheduled, and
\* the user ends an interactive session that was started
NextReturning ==
  \/ Resolve
  \/ SetTheEngine
  \/ NewRunManager
  \/ SetPhysicsList
  \/ NewDetectorConstruction
  \/ SetDetectorConstruction
  \/ SetActionInitialization
  \/ NewVisExecutive
  \/ VisInitialize
  \/ NewUIExecutive
  \/ GetUIpointer
  \/ ApplyMacroPath
  \/ ApplyExecute
  \/ SessionStart
  \/ SessionEnd
  \/ DeleteUI
  \/ DeleteVisManager
  \/ DeleteRunManager
  \/ Return

SpecReturning == Init /\ [][NextReturning]_vars /\ WF_vars(NextReturning)

\* ------------------------------------------------- what a run was seen to do
\* the calls made by the generated code of one of the two template branches
BatchCalls == {i \in 1..Len(calls) : calls[i].line \in 87..89}
InteractiveCalls == {i \in 1..Len(calls) : calls[i].line \in 77..82}

BatchTaken == BatchCalls # {}
InteractiveTaken == InteractiveCalls # {}

PathTaken ==
  IF BatchTaken /\ InteractiveTaken THEN "both"
  ELSE IF BatchTaken THEN "BATCH"
  ELSE IF InteractiveTaken THEN "INTERACTIVE"
  ELSE "none"

\* the macro files handed to /control/execute so far
MacrosExecuted ==
  {SubSeq(calls[i].arg, 18, Len(calls[i].arg)) :
     i \in {j \in 1..Len(calls) : calls[j].op = "ApplyExecute"}}

\* the same executable is started a second time, with any command line
Relaunch ==
  /\ proc # "running"
  /\ last = NoRun
  /\ last' = [argc |-> argc, path |-> PathTaken, macros |-> MacrosExecuted]
  /\ argv' \in ArgvValues
  /\ pc' = 1
  /\ proc' = "running"
  /\ exitCode' = NoStatus
  /\ outputfileName' = ""
  /\ macroFolder' = ""
  /\ runManager' = NullRunManager
  /\ detectorConstruction' = "null"
  /\ visManager' = "null"
  /\ ui' = NullUI
  /\ UImanager' = "null"
  /\ calls' = <<>>
  /\ UNCHANGED build

NextRuns == Next \/ Relaunch

SpecRuns == Init /\ [][NextRuns]_vars

\* ---------------------------------------------------- notions of the claims
\* number of parameters the user gave on the command line
UserArgs == argc - 1

\* the statement of lines 27-45 has been executed
Resolved == pc > Len(Configuration)

\* the dispatcher of the design: UNRESOLVED until generated code runs,
\* COMPLETED once control has left the generated code
Dispatcher ==
  IF pc > CogEnd THEN "COMPLETED"
  ELSE IF PathTaken = "none" THEN "UNRESOLVED"
  ELSE PathTaken

MacroPathPresent == "macro_path" \in DOMAIN conf

\* the calls made by the statement of source line l
Idx(l) == {i \in 1..Len(calls) : calls[i].line = l}

\* every call of line b comes after a call of line a that returned, and
\* no call of line a comes after a call of line b
Precedes(a, b) ==
  /\ \A j \in Idx(b) : \E i \in Idx(a) : i < j /\ calls[i].res # "throw"
  /\ \A i \in Idx(a), j \in Idx(b) : i < j

\* execution-mode actions: directives to the command interpreter and
\* interactive sessions
ExecutionModeOps ==
  {"newUIExecutive", "ApplyMacroPath", "ApplyExecute", "SessionStart"}

Directives == {"ApplyMacroPath", "ApplyExecute"}

\* ------------------------------------------------------------------ claims

\* C1: once the configuration is resolved, with exactly 1 parameter the
\* output name is that parameter and the macro directory the build-time
\* default; with exactly 2 the output name is the first and the macro
\* directory the second; with 0 or more than 2 both are the defaults.
C1_ResolutionByArgumentCount ==
  Resolved =>
    /\ UserArgs = 1 =>
         /\ outputfileName = Argv(1)
         /\ macroFolder = conf.macro_folder
    /\ UserArgs = 2 =>
         /\ outputfileName = Argv(1)
         /\ macroFolder = Argv(2)
    /\ UserArgs \notin {1, 2} =>
         /\ outputfileName = conf.out_filename
         /\ macroFolder = conf.macro_folder

C1_Witness ==
  /\ Resolved
  /\ UserArgs = 3
  /\ Argv(1) = "run42.root"
  /\ outputfileName = conf.out_filename
  /\ macroFolder = conf.macro_folder

\* C2: with either run manager class, the registrations arrive in the order
\* physics list, detector construction, action initialization, and the
\* action initialization was built from the detector instance that already
\* existed and was registered, and from the resolved output name.
C2_RegistrationOrder ==
  LET reg == runManager.registered
      order == <<"PhysicsList", "DetectorConstruction", "ActionInitialization">>
  IN  /\ Len(reg) <= 3
      /\ \A i \in 1..Len(reg) : reg[i].kind = order[i]
      /\ \A i \in 1..Len(reg) :
           reg[i].kind = "ActionInitialization" =>
             /\ reg[i].detector # "null"
             /\ reg[i].detector = detectorConstruction
             /\ \E j \in 1..(i - 1) :
                  /\ reg[j].kind = "DetectorConstruction"
                  /\ reg[j].detector = reg[i].detector
             /\ reg[i].outputfileName =
                  ResolveConfiguration(argc, argv, conf).outputfileName
      /\ Precedes(59, 61) /\ Precedes(60, 64) /\ Precedes(61, 64)

C2_Witness ==
  /\ Len(runManager.registered) = 3
  /\ runManager.kind = "G4MTRunManager"
  /\ runManager.registered[3].detector = "detector"
  /\ runManager.registered[3].outputfileName = "run42.root"

\* C3 as stated: a run takes the BATCH code iff macro_path is present in
\* the build-time configuration, the INTERACTIVE code iff it is absent,
\* never both, and one of the two once the dispatcher has completed.
C3_PathByPresence ==
  /\ PathTaken # "both"
  /\ BatchTaken => MacroPathPresent
  /\ InteractiveTaken => ~MacroPathPresent
  /\ Dispatcher = "COMPLETED" => PathTaken \in {"BATCH", "INTERACTIVE"}

\* C3 amended: a run takes the BATCH code iff macro_path is present and
\* not the empty string, the INTERACTIVE code iff it is absent or empty,
\* never both, and one of the two once the dispatcher has completed.
C3_PathByNonEmptyMacroPath ==
  /\ PathTaken # "both"
  /\ BatchTaken => (MacroPathPresent /\ conf.macro_path # "")
  /\ InteractiveTaken => (~MacroPathPresent \/ conf.macro_path = "")
  /\ Dispatcher = "COMPLETED" => PathTaken \in {"BATCH", "INTERACTIVE"}

C3_Witness ==
  /\ MacroPathPresent
  /\ conf.macro_path = ""
  /\ PathTaken = "INTERACTIVE"
  /\ proc = "exited"

\* C4: the visualization manager and the run manager are deleted only
\* after the dispatcher has completed, and the run manager is never
\* deleted while the visualization manager is still there; on both paths.
C4_TeardownOrder ==
  /\ (visManager = "deleted" \/ runManager.state = "deleted") =>
       /\ Dispatcher = "COMPLETED"
       /\ PathTaken \in {"BATCH", "INTERACTIVE"}
  /\ runManager.state = "deleted" => visManager = "deleted"
  /\ Precedes(97, 98)

C4_Witness ==
  /\ runManager.state = "deleted"
  /\ visManager = "deleted"
  /\ PathTaken = "INTERACTIVE"

\* C5: when the first registration with the run manager is about to be
\* made, and from then on, outputfileName and macroFolder are not empty.
C5_NonEmptyAtAssembly ==
  (At("SetPhysicsList") \/ runManager.registered # <<>>) =>
    /\ outputfileName # ""
    /\ macroFolder # ""

\* C6: when the initialization of the visualization manager has failed,
\* no directive is applied and no interactive session is opened or started.
C6_VisualizationFailureIsFatal ==
  \A i \in Idx(70) :
    calls[i].res = "fail" =>
      \A j \in (i + 1)..Len(calls) : calls[j].op \notin ExecutionModeOps

\* C7: after a directive that the command interpreter reported as failed,
\* no further directive is applied and no interactive session is started.
C7_DirectiveFailurePropagates ==
  \A i \in 1..Len(calls) :
    (calls[i].op \in Directives /\ calls[i].res = "fail") =>
      \A j \in (i + 1)..Len(calls) :
        calls[j].op \notin (Directives \cup {"SessionStart"})

\* C8: on the INTERACTIVE path the session object is made from argc and
\* argv, then "/control/macroPath <macroFolder>" is applied, then
\* "/control/execute vis.mac", then the session is started; while the
\* session runs the dispatcher has not completed, and when it has
\* completed the session has been started and has ended.
C8_InteractiveOrder ==
  /\ Precedes(77, 79) /\ Precedes(79, 80) /\ Precedes(80, 81)
  /\ ui.state # "null" => (ui.argc = argc /\ ui.argv = argv)
  /\ \A i \in Idx(79) : calls[i].arg = "/control/macroPath " \o macroFolder
  /\ \A i \in Idx(80) : calls[i].arg = "/control/execute vis.mac"
  /\ \A i \in Idx(81) : calls[i].res = "ok" => ui.state # "open"
  /\ ui.state = "running" => Dispatcher = "INTERACTIVE"
  /\ (InteractiveTaken /\ Dispatcher = "COMPLETED") =>
       /\ ui.state \in {"closed", "deleted"}
       /\ \E i \in Idx(81) : calls[i].res = "ok"

C8_Witness ==
  /\ Dispatcher = "COMPLETED"
  /\ ui.state = "deleted"
  /\ ui.argv = <<ProgramName, "run42.root", "/opt/macros">>
  /\ \E i \in Idx(79) : calls[i].arg = "/control/macroPath /opt/macros"
  /\ Idx(81) # {}

\* C9: on the BATCH path "/control/macroPath <macroFolder>" is applied
\* before "/control/execute <macro_path>", the dispatcher has completed
\* exactly when the execute call has returned, and no interactive session
\* object is ever made or started.
C9_BatchOrder ==
  BatchTaken =>
    /\ Precedes(88, 89)
    /\ \A i \in Idx(88) : calls[i].arg = "/control/macroPath " \o macroFolder
    /\ MacroPathPresent
    /\ \A i \in Idx(89) : calls[i].arg = "/control/execute " \o conf.macro_path
    /\ (Dispatcher = "COMPLETED") <=> (\E i \in Idx(89) : calls[i].res # "throw")
    /\ ui.state = "null"
    /\ \A i \in 1..Len(calls) : calls[i].op \notin {"newUIExecutive", "SessionStart"}

C9_Witness ==
  /\ BatchTaken
  /\ proc = "exited"
  /\ \E i \in Idx(88) : calls[i].arg = "/control/macroPath /opt/macros"
  /\ \E i \in Idx(89) : calls[i].arg = "/control/execute batch.mac"

\* C10: two runs of the same build, whatever their command lines, take
\* the same dispatch path, and a macro run on the BATCH path is the
\* macro_path of the build in both, whatever the parameters were.
C10_PathIndependentOfArguments ==
  /\ (last.path # "none" /\ PathTaken # "none") => PathTaken = last.path
  /\ (PathTaken = "BATCH" /\ last.macros # {} /\ MacrosExecuted # {}) =>
       MacrosExecuted = last.macros
  /\ BatchTaken => MacrosExecuted \subseteq {conf.macro_path}

C10_Witness ==
  /\ last.path = "BATCH"
  /\ PathTaken = "BATCH"
  /\ last.argc = 1
  /\ argc = 4
  /\ MacrosExecuted = {"batch.mac"}
  /\ last.macros = {"batch.mac"}

\* C11: on both paths the search path directive is "/control/macroPath "
\* followed by the second parameter when exactly 2 parameters were given,
\* and by the build-time default macro folder otherwise.
C11_SearchPathIsResolvedFolder ==
  \A i \in Idx(79) \cup Idx(88) :
    calls[i].arg =
      "/control/macroPath " \o
        (IF UserArgs = 2 THEN Argv(2) ELSE conf.macro_folder)

C11_Witness ==
  /\ UserArgs = 1
  /\ Argv(1) = "/opt/macros"
  /\ \E i \in Idx(79) :
       /\ calls[i].res = "ok"
       /\ calls[i].arg = "/control/macroPath macros"

\* C12: whenever a session object is made, a directive is applied or a
\* session is started, the physics list, the detector construction and
\* the action initialization have all been registered before.
C12_RegistrationBeforeExecution ==
  \A i \in 1..Len(calls) :
    calls[i].op \in ExecutionModeOps =>
      /\ Len(runManager.registered) = 3
      /\ \A l \in {59, 61, 64} :
           \E j \in Idx(l) : j < i /\ calls[j].res = "ok"

C12_Witness ==
  /\ Len(runManager.registered) = 3
  /\ Len(calls) > 0
  /\ calls[Len(calls)].op = "newUIExecutive"
  /\ calls[Len(calls)].res = "ok"

\* C13: whenever a directive is applied, on either path, the
\* visualization manager has been made and its initialization has
\* succeeded before, and it has not been deleted yet.
C13_VisualizationLiveAtDirectives ==
  \A i \in 1..Len(calls) :
    calls[i].op \in Directives =>
      /\ \E j \in Idx(67) : j < i /\ calls[j].res = "ok"
      /\ \E j \in Idx(70) : j < i /\ calls[j].res = "ok"
      /\ \A j \in Idx(97) : i < j

\* the operations of main() that the design calls attempt-once, by the
\* source line of the statement that makes the call
AttemptOnceLines == {59, 61, 64, 70, 79, 80, 81, 82, 88, 89, 97, 98}

CallsOf(ops) == {i \in 1..Len(calls) : calls[i].op \in ops}

\* C14: in one run each registration, the initialization of the
\* visualization manager, the search path directive, the execute
\* directive, the session start and each delete is called at most once,
\* also when the call reported a failure or threw.
C14_AttemptOnce ==
  /\ \A l \in AttemptOnceLines : Cardinality(Idx(l)) <= 1
  /\ \A o \in {"SetPhysicsList", "SetDetectorConstruction",
               "SetActionInitialization", "visInitialize", "ApplyMacroPath",
               "ApplyExecute", "SessionStart", "deleteUI",
               "deleteVisManager", "deleteRunManager"} :
       Cardinality(CallsOf({o})) <= 1
  /\ \A i, j \in 1..Len(runManager.registered) :
       runManager.registered[i].kind = runManager.registered[j].kind => i = j

C14_Witness ==
  /\ proc = "exited"
  /\ \E i \in Idx(70) : calls[i].res = "fail"
  /\ \E i \in Idx(88) : calls[i].res = "fail"
  /\ \E i \in Idx(89) : calls[i].res = "fail"
  /\ Cardinality(CallsOf(Directives)) = 2

\* C15: when every collaborator call returns and the user ends the
\* session, every run gets to the point where the dispatcher has completed
\* and nothing is released yet, and ends up exited for good with the
\* visualization manager and the run manager deleted; as long as main()
\* has not returned there is a next step to take.
C15_RunsToCompletion ==
  /\ <>(/\ Dispatcher = "COMPLETED"
        /\ proc = "running"
        /\ visManager \notin {"null", "deleted"}
        /\ runManager.state = "live")
  /\ <>[](/\ proc = "exited"
          /\ Dispatcher = "COMPLETED"
          /\ visManager = "deleted"
          /\ runManager.state = "deleted")
  /\ [](proc = "running" => ENABLED NextReturning)

C15_Witness ==
  /\ proc = "exited"
  /\ InteractiveTaken
  /\ ui.state = "deleted"
  /\ visManager = "deleted"
  /\ runManager.state = "deleted"
  /\ \A i \in 1..Len(calls) : calls[i].res = "ok"

\* C16: on the INTERACTIVE path the session object is deleted only when
\* the session has ended, and before the visualization manager, which is
\* deleted before the run manager; on the BATCH path there is no session
\* object and no delete of one.
C16_ReleaseOrder ==
  /\ [](InteractiveTaken =>
          /\ Precedes(82, 97)
          /\ Precedes(97, 98)
          /\ (visManager = "deleted" \/ runManager.state = "deleted") =>
               ui.state = "deleted")
  /\ [](BatchTaken => (Idx(82) = {} /\ ui.state = "null"))
  /\ [][(ui'.state = "deleted" /\ ui.state # "deleted") =>
          ui.state = "closed"]_vars

C16_Witness ==
  /\ InteractiveTaken
  /\ ui.state = "deleted"
  /\ \E i \in Idx(82), j \in Idx(97), k \in Idx(98) : i < j /\ j < k
  /\ \E i \in Idx(80) : calls[i].res = "fail"

\* C17: a run that reaches the end of main() exits with status 0, whatever
\* the number of parameters, the path taken and the results reported by
\* the directives; no other status is ever set.
C17_ExitStatusAlwaysZero ==
  /\ proc = "exited" => exitCode = 0
  /\ proc # "exited" => exitCode = NoStatus

C17_Witness ==
  /\ proc = "exited"
  /\ exitCode = 0
  /\ BatchTaken
  /\ UserArgs = 0
  /\ \E i \in Idx(89) : calls[i].res = "fail"

====
